---- MODULE Spec2Model ----
(***************************************************************************)
(* kings: a small multi-user text game.  The model covers the object       *)
(* store and entity classes of kings/objects.py, the Action classes of     *)
(* the same file, and the per-connection greenlet of kings/net.py.         *)
(*                                                                         *)
(* Python objects live in `heap` (a reference is an index of the heap),    *)
(* so that two entities with the same oid remain two objects.  Operations  *)
(* of objects.py are operators over a "world" record                       *)
(*   [heap, objects, ic, timers]                                           *)
(* that return a result record [w, exc, ref, ret]: the new world, the      *)
(* exception that escaped ("" when none), the object returned and the      *)
(* string returned.                                                        *)
(***************************************************************************)
EXTENDS Integers, Sequences, FiniteSets, TLC

VARIABLES
    heap,       \* the Python objects created so far (entities), by reference
    objects,    \* Db.objects: oid -> reference
    ic,         \* the instance_counter attribute of each class that has one
    timers,     \* greenlets started by AttackAction.execute with start_later(2)
    pc,         \* per connection: where its connect() greenlet stands
    player,     \* per connection: the Player its greenlet created (0: none)
    inq,        \* per connection: lines the client sent, not read yet
    eof,        \* per connection: the client closed the stream
    out,        \* per connection: what the greenlet wrote to the socket
    last,       \* history: the last call made and its outcome
    closed      \* history: the Players whose close() was called

vars == <<heap, objects, ic, timers, pc, player, inq, eof, out, last, closed>>

----------------------------------------------------------------------------
(* Bounds of the model *)

MaxConn == 2        \* connections the server accepts
MaxPlayers == 2     \* Player objects created in one run
MaxMail == 1        \* items waiting in one Player's `actions` queue
MaxInq == 1         \* lines a client has sent that were not read yet
MaxTimers == 1      \* greenlets waiting to run AttackAction.requeue
MaxHits == 2        \* hit points one entity loses in one run
MaxClones == 2      \* calls of clone after the content is loaded

(* Values *)

NONE == "<None>"                    \* Python's None
NoExits == [x \in {} |-> NONE]      \* an empty dict
Truthy(v) == v # NONE /\ v # ""

PlayerHp == 20
RetryDelay == 2     \* greenlet.start_later(2)
NpcHp == 5
StartLocation == "town_square"

Conns == 1..MaxConn

\* The content directory (content/*.yaml of the package): one record per file.
Content ==
    ("town_square" :> [type |-> "Location", oid |-> "town_square",
                       short_desc |-> "the square", long_desc |-> "A square.",
                       location_oid |-> NONE,
                       exits |-> ("north" :> "forest"), npcs |-> <<"rat">>])
 @@ ("forest" :> [type |-> "Location", oid |-> "forest",
                  short_desc |-> "the forest", long_desc |-> "A forest.",
                  location_oid |-> NONE,
                  exits |-> ("south" :> "town_square") @@ ("down" :> "cave"),
                  npcs |-> <<>>])
 @@ ("rat" :> [type |-> "Npc", oid |-> "rat",
               short_desc |-> "a rat", long_desc |-> "A big rat.",
               location_oid |-> NONE, exits |-> NoExits, npcs |-> <<>>])

\* resource_listdir: the files of the content directory, in the order listed.
ContentFiles == <<"rat", "forest", "town_square">>

----------------------------------------------------------------------------
(* Results of a call *)

Ok(w) == [w |-> w, exc |-> "", ref |-> 0, ret |-> ""]
OkRef(w, r) == [w |-> w, exc |-> "", ref |-> r, ret |-> ""]
OkRet(w, s) == [w |-> w, exc |-> "", ref |-> 0, ret |-> s]
Raise(w, e) == [w |-> w, exc |-> e, ref |-> 0, ret |-> ""]

World == [heap |-> heap, objects |-> objects, ic |-> ic, timers |-> timers]

Refs(w) == 1..Len(w.heap)
Stored(w) == {w.objects[k] : k \in DOMAIN w.objects}

\* Object.__eq__: two entities are equal when their oids are.
ObjEq(w, a, b) == w.heap[a].oid = w.heap[b].oid

\* hasattr(obj, 'actions'), hasattr(obj, 'exits'), hasattr(obj, 'hp')
HasActions(w, r) == w.heap[r].cls = "Player"
HasExits(w, r) == w.heap[r].cls = "Location"
HasHp(w, r) == w.heap[r].cls \in {"Player", "Npc"}

----------------------------------------------------------------------------
(* class Db *)

\* Db.__contains__
DbContains(w, oid) == oid \in DOMAIN w.objects

\* A store whose add keeps the entity that already holds the id
DbAddKeepsFirst(w, r) ==
    IF ~Truthy(w.heap[r].oid) THEN Raise(w, "AssertionError")
    ELSE IF w.heap[r].oid \in DOMAIN w.objects THEN Ok(w)
    ELSE Ok([w EXCEPT !.objects =
                [k \in DOMAIN w.objects \cup {w.heap[r].oid} |->
                    IF k = w.heap[r].oid THEN r ELSE w.objects[k]]])

\* Db.add: assert obj.oid; self.objects[obj.oid] = obj
DbAdd(w, r) ==
    IF ~Truthy(w.heap[r].oid)
    THEN Raise(w, "AssertionError")
    ELSE Ok([w EXCEPT !.objects =
                [k \in DOMAIN w.objects \cup {w.heap[r].oid} |->
                    IF k = w.heap[r].oid THEN r ELSE w.objects[k]]])

\* Db.remove: del self.objects[obj.oid], KeyError -> ObjectNotFound
DbRemove(w, r) ==
    IF w.heap[r].oid \in DOMAIN w.objects
    THEN Ok([w EXCEPT !.objects =
                [k \in DOMAIN w.objects \ {w.heap[r].oid} |-> w.objects[k]]])
    ELSE Raise(w, "ObjectNotFound")

\* Db.get: self.objects[oid], KeyError -> ObjectNotFound
DbGet(w, oid) ==
    IF oid \in DOMAIN w.objects THEN OkRef(w, w.objects[oid])
    ELSE Raise(w, "ObjectNotFound")

\* Db.query(location_oid=loc): the stored entities whose location_oid is loc
QueryLoc(w, loc) == {r \in Stored(w) : w.heap[r].loc = loc}

\* Db.query(oid=oid, location_oid=loc)
QueryOidLoc(w, oid, loc) ==
    {r \in Stored(w) : w.heap[r].oid = oid /\ w.heap[r].loc = loc}

----------------------------------------------------------------------------
(* class Object and its subclasses: construction *)

\* self.hp = 20 of Player.__init__, self.hp = 5 of Npc.__init__
ClassHp(cls) ==
    IF cls = "Player" THEN PlayerHp ELSE IF cls = "Npc" THEN NpcHp ELSE 0

\* Object.__init__, Player.__init__, Npc.__init__ and the fields of
\* Location.__init__: a new Python object.  `kw` holds oid, short_desc,
\* long_desc, location_oid, exits; `running` is Player's keyword.  hp0 is
\* not an attribute of the object: it records the hit points the object had
\* in the initial state of a run, for the bound on the hits of one run.
Alloc(w, cls, kw, running) ==
    [w EXCEPT !.heap = Append(w.heap,
        [cls |-> cls, oid |-> kw.oid,
         short_desc |-> kw.short_desc, long_desc |-> kw.long_desc,
         loc |-> kw.location_oid,
         hp |-> ClassHp(cls),
         hp0 |-> ClassHp(cls),
         running |-> running,
         actions |-> <<>>,
         exits |-> IF cls = "Location" THEN kw.exits ELSE NoExits])]

\* cls.instance_counter as Python reads it: the class's own attribute, or
\* the one inherited from Object.
ReadCounter(w, cls) == IF cls \in DOMAIN w.ic THEN w.ic[cls] ELSE w.ic["Object"]

\* cls.instance_counter += 1: reads through the class hierarchy, writes the
\* attribute of cls itself.
BumpCounter(w, cls) ==
    [w EXCEPT !.ic = [c \in DOMAIN w.ic \cup {cls} |->
                        IF c = cls THEN ReadCounter(w, cls) + 1 ELSE w.ic[c]]]

\* "{0}:{1}".format(cloned.oid, instance_num)
CloneOid(oid, n) == oid \o ":" \o ToString(n)

RECURSIVE FromYaml(_, _)
RECURSIVE Clone(_, _, _)
RECURSIVE CloneNpcs(_, _, _, _)

\* The loop of Location.__init__: for npc_oid in npcs: Npc.clone(npc_oid),
\* cloned._location_oid = self.oid
CloneNpcs(w, npcs, i, locOid) ==
    LET Placed(c) ==
            IF c.exc # "" THEN c
            ELSE CloneNpcs([c.w EXCEPT !.heap[c.ref].loc = locOid],
                           npcs, i + 1, locOid)
    IN  IF i > Len(npcs) THEN Ok(w) ELSE Placed(Clone(w, "Npc", npcs[i]))

\* Player.init, after the Player is stored:
\* LookAction(player, player.location_oid) | player
PlayerGreeting(w, r) ==
    [w EXCEPT !.heap[r].actions =
        Append(@, [type |-> "Look", src |-> r, dst |-> 0,
                   text |-> w.heap[r].loc])]

\* Object.init / Player.init: cls(**kwargs), Db.add(obj); Location.__init__
\* clones its npcs before the Location is added; Player.init forces
\* running=True and sends the new player a LookAction at its location.
ObjectInit(w, cls, kw) ==
    LET Added(a, r) ==
            IF a.exc # "" THEN a
            ELSE IF cls = "Player" THEN OkRef(PlayerGreeting(a.w, r), r)
            ELSE OkRef(a.w, r)
        Built(b, r) == IF b.exc # "" THEN b ELSE Added(DbAdd(b.w, r), r)
        Made(w1) ==
            Built(IF cls = "Location" THEN CloneNpcs(w1, kw.npcs, 1, kw.oid)
                  ELSE Ok(w1),
                  Len(w1.heap))
    IN  Made(Alloc(w, cls, kw, cls = "Player"))

\* Db.from_yaml(oid=...): read "<oid>.yaml" and build the entity it defines.
FromYaml(w, oid) ==
    IF oid \notin DOMAIN Content THEN Raise(w, "IOError")
    ELSE ObjectInit(w, Content[oid].type, Content[oid])

\* Object.clone, from the deepcopy on: the copy, the counter, the new oid,
\* Db.add
CloneFrom(w, cls, proto) ==
    LET Named(w3, c) == (LET a == DbAdd(w3, c) IN
                         IF a.exc # "" THEN a ELSE OkRef(a.w, c))
        Counted(w2, c) ==
            Named([w2 EXCEPT !.heap[c].oid = CloneOid(@, w2.ic[cls])], c)
        Copied(w1) == Counted(BumpCounter(w1, cls), Len(w1.heap))
    IN  Copied([w EXCEPT !.heap = Append(@, w.heap[proto])])

\* Object.clone (a classmethod: cls is the class it is called on): the
\* prototype is the stored entity, or the one from_yaml builds
Clone(w, cls, oid) ==
    LET Proto(p) == IF p.exc # "" THEN p ELSE CloneFrom(p.w, cls, p.ref)
    IN  Proto(IF DbContains(w, oid) THEN DbGet(w, oid) ELSE FromYaml(w, oid))

RECURSIVE LoadFiles(_, _)
\* Db.reload: from_yaml(filename=...) for every file of the content directory
LoadFiles(w, i) ==
    IF i > Len(ContentFiles) THEN w
    ELSE LoadFiles(FromYaml(w, ContentFiles[i]).w, i + 1)

\* Db.init: an empty store, then reload()
Loaded ==
    LoadFiles([heap |-> <<>>, objects |-> NoExits, ic |-> ("Object" :> 0),
               timers |-> <<>>], 1)

----------------------------------------------------------------------------
(* class Object: methods *)

\* str.format of a value: None prints as "None"
Str(v) == IF v = NONE THEN "None" ELSE v

\* Object.short_desc, overridden by Player.short_desc (the oid)
ShortDesc(w, r) ==
    IF w.heap[r].cls = "Player" THEN w.heap[r].oid ELSE w.heap[r].short_desc

\* Object.location: the stored entity named by location_oid, or None (0)
LocationOf(w, r) ==
    IF Truthy(w.heap[r].loc) /\ w.heap[r].loc \in DOMAIN w.objects
    THEN w.objects[w.heap[r].loc] ELSE 0

SetLocationOidBlind(w, r, val) ==
    IF DbGet(w, val).exc # ""
    THEN Raise([w EXCEPT !.heap[r].loc = val], "LocationNotFound")
    ELSE Ok([w EXCEPT !.heap[r].loc = val])

\* the location_oid setter: Db.get(val), ObjectNotFound -> LocationNotFound,
\* else self._location_oid = val
SetLocationOid(w, r, val) ==
    IF DbGet(w, val).exc # "" THEN Raise(w, "LocationNotFound")
    ELSE Ok([w EXCEPT !.heap[r].loc = val])

\* Object.move_to
MoveTo(w, r, target) ==
    IF DbContains(w, target) THEN Ok([w EXCEPT !.heap[r].loc = target])
    ELSE Raise(w, "LocationNotFound")

\* Items of a Player's `actions` queue: a string, or an Action object.
StrItem(s) == [type |-> "str", src |-> 0, dst |-> 0, text |-> s]
LookItem(o, t) == [type |-> "Look", src |-> o, dst |-> 0, text |-> t]
AttackItem(a, t, origin) ==
    [type |-> "Attack", src |-> a, dst |-> t, text |-> origin]

SendToAll(w, r, item) == [w EXCEPT !.heap[r].actions = Append(@, item)]

\* Object.__ror__ ("item | obj"): put the item on obj's queue if it has one
Send(w, r, item) ==
    IF HasActions(w, r) THEN [w EXCEPT !.heap[r].actions = Append(@, item)]
    ELSE w

\* "obj != other" on two entities.  Object defines __eq__ and no __ne__:
\* Python 2 then compares identities, Python 3 negates __eq__.
NotEqual(w, a, b, py3) == IF py3 THEN ~ObjEq(w, a, b) ELSE a # b

\* Player.close
PlayerClose(w, p) == DbRemove(w, p)

----------------------------------------------------------------------------
(* Sequences of strings and of references *)

RECURSIVE Join(_, _)
\* sep.join(seq)
Join(seq, sep) ==
    IF seq = <<>> THEN ""
    ELSE IF Len(seq) = 1 THEN seq[1]
    ELSE seq[1] \o sep \o Join(Tail(seq), sep)

RECURSIVE RefSeq(_)
\* The entities of a query result as a list; the store is a dict and the
\* model lists them in the order they were created.
RefSeq(S) ==
    LET From(m) == <<m>> \o RefSeq(S \ {m})
    IN  IF S = {} THEN <<>> ELSE From(CHOOSE x \in S : \A y \in S : x <= y)

\* sorted() on the exit names that occur in the content
NameOrder == <<"down", "north", "south">>
SortedKeys(f) == SelectSeq(NameOrder, LAMBDA n : n \in DOMAIN f)

RECURSIVE SendEach(_, _, _, _, _, _)
\* for obj in location.contents(): if obj != sender: item | obj
SendEach(w, rs, i, sender, item, py3) ==
    IF i > Len(rs) THEN w
    ELSE SendEach(IF NotEqual(w, rs[i], sender, py3)
                  THEN Send(w, rs[i], item) ELSE w,
                  rs, i + 1, sender, item, py3)

----------------------------------------------------------------------------
(* The Action classes *)

NotHere(t) == "There's no \"" \o Str(t) \o "\" here."

\* LookAction.execute, the lookup of the target: Db.get of the observer's
\* own location, else the first result of a query of its location.
LookResolve(w, o, t) ==
    LET First(q) == IF q = {} THEN Raise(w, "IndexError")
                    ELSE OkRef(w, CHOOSE r \in q : TRUE)
    IN  IF w.heap[o].loc = t THEN DbGet(w, t)
        ELSE First(QueryOidLoc(w, t, w.heap[o].loc))

\* LookAction.execute: the short_desc of each thing but the observer
Others(w, o) ==
    RefSeq({t \in QueryLoc(w, w.heap[o].loc) : w.heap[t].oid # w.heap[o].oid})
Descs(w, rs) == [i \in 1..Len(rs) |-> ShortDesc(w, rs[i])]

\* LookAction.execute, the text: long_desc, then for a target with exits
\* the exits line and the short_desc of the others at the observer's place
LookOutput(w, o, obj) ==
    <<w.heap[obj].long_desc>> \o
    (IF HasExits(w, obj)
     THEN <<IF DOMAIN w.heap[obj].exits # {}
            THEN "Exits: " \o Join(SortedKeys(w.heap[obj].exits), ", ")
            ELSE "There are no obvious exists">>
          \o Descs(w, Others(w, o))
     ELSE <<>>)

\* "\n".join(output): a None among the strings is a TypeError
JoinLines(w, output) ==
    IF \E i \in 1..Len(output) : output[i] = NONE
    THEN Raise(w, "TypeError")
    ELSE OkRet(w, Join(output, "\n"))

\* LookAction.execute
LookExecute(w, o, t) ==
    LET Found(hit) ==
            IF hit.exc = "ObjectNotFound" THEN OkRet(w, NotHere(t))
            ELSE IF hit.exc # "" THEN hit
            ELSE JoinLines(w, LookOutput(w, o, hit.ref))
    IN  Found(LookResolve(w, o, t))

Oops(d) == "Oops, could not find \"" \o Str(d) \o "\""

\* MoveAction.execute
MoveExecute(w, m, d) ==
    LET Moved(s) == IF s.exc = "LocationNotFound" THEN OkRet(s.w, Oops(d))
                    ELSE LookExecute(s.w, m, d)
    IN  Moved(SetLocationOid(w, m, d))

Says(w, p, msg) == w.heap[p].oid \o " says: \"" \o msg \o "\""
YouSay(msg) == "You say: \"" \o msg \o "\""

\* SayAction.execute
SayExecute(w, p, msg, py3) ==
    LET At(l) ==
            IF l = 0 \/ w.heap[l].cls # "Location"
            THEN Raise(w, "AttributeError")
            ELSE OkRet(SendEach(w, RefSeq(QueryLoc(w, w.heap[l].oid)), 1, p,
                                StrItem(Says(w, p, msg)), py3),
                       YouSay(msg))
    IN  At(LocationOf(w, p))

\* ExitAction.execute
ExitExecute(w, p, msg) == OkRet([w EXCEPT !.heap[p].running = FALSE], msg)

\* Player.attack, Npc.attack: AttackAction(self, target) | target
Attack(w, a, t, origin) ==
    IF w.heap[a].cls \in {"Player", "Npc"}
    THEN Ok(Send(w, t, AttackItem(a, t, origin)))
    ELSE Raise(w, "AttributeError")

Stopped(w, a) == Str(w.heap[a].oid) \o " stopped attacking you."
HitYou(w, a, hp) ==
    Str(w.heap[a].oid) \o " hit you for 1hp (" \o ToString(hp) \o "hp left)."

\* An attack that is retried whatever the hit points left
AttackHitAlwaysRetries(w1, a, t) ==
    OkRet([w1 EXCEPT !.timers = Append(@, <<a, t, RetryDelay>>)],
          IF w1.heap[t].hp < 0 THEN "You have died."
          ELSE HitYou(w1, a, w1.heap[t].hp))

\* AttackAction.execute, after self.target.hp -= damage
AttackHit(w1, a, t) ==
    IF w1.heap[t].hp < 0 THEN OkRet(w1, "You have died.")
    ELSE OkRet([w1 EXCEPT !.timers = Append(@, <<a, t, RetryDelay>>)],
               HitYou(w1, a, w1.heap[t].hp))

\* An attack that also takes the first item off the attacker's queue
AttackExecuteTakes(w, a, t) ==
    IF w.heap[a].loc = w.heap[t].loc
    THEN IF ~HasHp(w, t) THEN Raise(w, "AttributeError")
         ELSE AttackHit([w EXCEPT !.heap[t].hp = @ - 1,
                                  !.heap[a].actions =
                                      IF @ = <<>> THEN @ ELSE Tail(@)], a, t)
    ELSE OkRet(w, Stopped(w, a))

\* AttackAction.execute
AttackExecute(w, a, t) ==
    IF w.heap[a].loc = w.heap[t].loc
    THEN IF ~HasHp(w, t) THEN Raise(w, "AttributeError")
         ELSE AttackHit([w EXCEPT !.heap[t].hp = @ - 1], a, t)
    ELSE OkRet(w, Stopped(w, a))

\* AttackAction.requeue, run by the greenlet two seconds later
Requeue(w, a, t) == Attack(w, a, t, "requeue")

\* There is no "X" here / X starts to fight Y / You start to fight Y
NoTarget(name) == "There is no \"" \o Str(name) \o "\" here"
StartsToFight(w, a, t) ==
    Str(w.heap[a].oid) \o " starts to fight " \o Str(w.heap[t].oid)
YouStartToFight(w, t) == "You start to fight " \o Str(w.heap[t].oid)

\* KillAction.execute, once the target is found: tell the others, then
\* attacker.attack(target), target.attack(attacker)
KillFight(w, l, a, t, py3) ==
    LET Second(a2) == IF a2.exc # "" THEN a2
                      ELSE OkRet(a2.w, YouStartToFight(w, t))
        First(a1) == IF a1.exc # "" THEN a1
                     ELSE Second(Attack(a1.w, t, a, "kill"))
    IN  First(Attack(SendEach(w, RefSeq(QueryLoc(w, w.heap[l].oid)), 1, a,
                              StrItem(StartsToFight(w, a, t)), py3),
                     a, t, "kill"))

\* KillAction.execute
KillExecute(w, a, name, py3) ==
    LET Target(l, q) ==
            IF q = {} THEN OkRet(w, NoTarget(name))
            ELSE IF w.heap[l].cls # "Location" THEN Raise(w, "AttributeError")
            ELSE KillFight(w, l, a, CHOOSE r \in q : TRUE, py3)
        At(l) == IF l = 0 THEN Raise(w, "AttributeError")
                 ELSE Target(l, QueryOidLoc(w, name, w.heap[l].oid))
    IN  At(LocationOf(w, a))

----------------------------------------------------------------------------
(* Player.interpret.  A line is given as its partition at the first blank:  *)
(* [verb, rest].                                                           *)

NoItem == [type |-> "", src |-> 0, dst |-> 0, text |-> ""]
Unknown(verb) == "I don't know what \"" \o verb \o "\" means"

\* Player.interpret, the last branch: the verb as an exit of the room
InterpretExit(w, p, line, room) ==
    IF room = 0 \/ w.heap[room].cls # "Location"
    THEN [exc |-> "AttributeError", ret |-> "", item |-> NoItem]
    ELSE IF line.verb \in DOMAIN w.heap[room].exits
    THEN [exc |-> "", ret |-> "",
          item |-> [type |-> "Move", src |-> p, dst |-> 0,
                    text |-> w.heap[room].exits[line.verb]]]
    ELSE [exc |-> "", ret |-> Unknown(line.verb), item |-> NoItem]

\* Player.interpret: the Action built (item), the string returned (ret) or
\* the exception raised (exc)
Interpret(w, p, line) ==
    LET R(exc, ret, item) == [exc |-> exc, ret |-> ret, item |-> item] IN
    IF line.verb = "ls" THEN R("", "repr(objects)", NoItem)
    ELSE IF line.verb = "look"
    THEN IF line.rest # "" THEN R("TypeError", "", NoItem)
         ELSE R("", "", LookItem(p, w.heap[p].loc))
    ELSE IF line.verb = "exit"
    THEN R("", "", [type |-> "Exit", src |-> p, dst |-> 0, text |-> "Goodbye"])
    ELSE IF line.verb = "say"
    THEN R("", "", [type |-> "Say", src |-> p, dst |-> 0, text |-> line.rest])
    ELSE IF line.verb = "kill"
    THEN R("", "", [type |-> "Kill", src |-> p, dst |-> 0, text |-> line.rest])
    ELSE InterpretExit(w, p, line, LocationOf(w, p))

\* Action.execute of the Action object an item stands for
Execute(w, item, py3) ==
    CASE item.type = "Look" -> LookExecute(w, item.src, item.text)
      [] item.type = "Move" -> MoveExecute(w, item.src, item.text)
      [] item.type = "Say" -> SayExecute(w, item.src, item.text, py3)
      [] item.type = "Kill" -> KillExecute(w, item.src, item.text, py3)
      [] item.type = "Exit" -> ExitExecute(w, item.src, item.text)
      [] item.type = "Attack" -> AttackExecute(w, item.src, item.dst)
      [] OTHER -> OkRet(w, item.text)

----------------------------------------------------------------------------
(* The state machine *)

\* op: the call; ref: the entity it is made on; arg: its string argument;
\* exc, ret: the exception or the string it ends with; res: the entity
\* returned (or, for an AttackAction, the target)
NoCall == [op |-> "", ref |-> 0, arg |-> "", exc |-> "", ret |-> "", res |-> 0]
Call(op, ref, arg, r) ==
    [op |-> op, ref |-> ref, arg |-> arg, exc |-> r.exc, ret |-> r.ret,
     res |-> r.ref]

Init ==
    /\ heap = Loaded.heap
    /\ objects = Loaded.objects
    /\ ic = Loaded.ic
    /\ timers = Loaded.timers
    /\ pc = [c \in Conns |-> "idle"]
    /\ player = [c \in Conns |-> 0]
    /\ inq = [c \in Conns |-> <<>>]
    /\ eof = [c \in Conns |-> FALSE]
    /\ out = [c \in Conns |-> <<>>]
    /\ last = NoCall
    /\ closed = {}

\* The new world of a call, and the record of the call
Becomes(w, call) ==
    /\ heap' = w.heap
    /\ objects' = w.objects
    /\ ic' = w.ic
    /\ timers' = w.timers
    /\ last' = call

net == <<pc, player, inq, eof, out>>
world == <<heap, objects, ic, timers>>

\* The keywords of Player.init(oid=username, location_oid="town_square")
PlayerKw(username) ==
    [oid |-> username, short_desc |-> NONE, long_desc |-> NONE,
     location_oid |-> StartLocation, exits |-> NoExits, npcs |-> <<>>]

\* Room in every queue for one more item
MailRoom(w) == \A r \in Refs(w) : Len(w.heap[r].actions) < MaxMail

\* The Players a caller can act for: those not closed
Players == {r \in Refs(World) : heap[r].cls = "Player" /\ r \notin closed}

\* Room for one more Player object
PlayerRoom ==
    Cardinality({r \in Refs(World) : heap[r].cls = "Player"}) < MaxPlayers

----------------------------------------------------------------------------
(* kings/net.py: the greenlet of one connection.  A greenlet runs from one  *)
(* socket operation to the next without interruption.                      *)

Lines == {"bob", "exit"}

\* StreamServer accepts a connection and spawns connect(socket, address)
Accept(c) ==
    /\ pc[c] = "idle"
    /\ pc' = [pc EXCEPT ![c] = "write_user"]
    /\ last' = Call("accept", c, "", Ok(World))
    /\ UNCHANGED <<world, player, inq, eof, out, closed>>

\* connect, lines 31-33: conn.write("User: "), conn.flush(); the flush of a
\* stream the client has closed may raise, which ends the greenlet
WriteUser(c) ==
    /\ pc[c] = "write_user"
    /\ \/ /\ pc' = [pc EXCEPT ![c] = "read_user"]
          /\ out' = [out EXCEPT ![c] = Append(@, "User: ")]
          /\ last' = Call("write", c, "User: ", Ok(World))
       \/ /\ eof[c]
          /\ pc' = [pc EXCEPT ![c] = "dead"]
          /\ out' = out
          /\ last' = Call("write", c, "User: ", Raise(World, "IOError"))
    /\ UNCHANGED <<world, player, inq, eof, closed>>

\* connect, lines 34-41: readline() returns the next line, or '' at the end
\* of the stream; Player.init adds the Player; player.look does not exist, so
\* line 41 raises AttributeError before the try block is entered.
ReadUser(c) ==
    /\ pc[c] = "read_user"
    /\ inq[c] # <<>> \/ eof[c]
    /\ PlayerRoom
    /\ \E username \in {IF inq[c] # <<>> THEN Head(inq[c]) ELSE ""} :
       \E r \in {ObjectInit(World, "Player", PlayerKw(username))} :
           /\ inq' = [inq EXCEPT ![c] = IF @ # <<>> THEN Tail(@) ELSE @]
           /\ player' = [player EXCEPT ![c] = r.ref]
           /\ pc' = [pc EXCEPT ![c] = "dead"]
           /\ Becomes(IF r.exc = ""
                      THEN [r.w EXCEPT !.heap[r.ref].running = TRUE] ELSE r.w,
                      Call("connect", c, username,
                           IF r.exc = "" THEN Raise(r.w, "AttributeError") ELSE r))
    /\ UNCHANGED <<eof, out, closed>>

\* The client sends a line
ClientSend(c, line) ==
    /\ pc[c] # "idle" /\ ~eof[c]
    /\ Len(inq[c]) < MaxInq
    /\ inq' = [inq EXCEPT ![c] = Append(@, line)]
    /\ last' = Call("client.send", c, line, Ok(World))
    /\ UNCHANGED <<world, pc, player, eof, out, closed>>

\* The client closes the stream
ClientClose(c) ==
    /\ pc[c] # "idle" /\ ~eof[c]
    /\ eof' = [eof EXCEPT ![c] = TRUE]
    /\ last' = Call("client.close", c, "", Ok(World))
    /\ UNCHANGED <<world, pc, player, inq, out, closed>>

NextNet ==
    \E c \in Conns :
        \/ Accept(c)
        \/ WriteUser(c)
        \/ ReadUser(c)
        \/ \E line \in Lines : ClientSend(c, line)
        \/ ClientClose(c)

SpecNet == Init /\ [][NextNet]_vars

----------------------------------------------------------------------------
(* kings/objects.py as its callers use it: one action per call *)

Names == {"al", "bob", "town_square"}
SayMsgs == {"hi"}
MoveDests == {"forest", "town_square", "cave"}
LookTargets == {"town_square", "rat:1", "dragon"}
KillNames == {"rat:1", "al", "bob"}
FightNames == {"al", "bob"}
FightDests == {"forest", "town_square"}

\* Player.init(oid=username, location_oid="town_square"), as net.py calls it
DoPlayerInit(u) ==
    /\ PlayerRoom
    /\ \E r \in {ObjectInit(World, "Player", PlayerKw(u))} :
          Becomes(r.w, Call("Player.init", 0, u, r))
    /\ UNCHANGED <<net, closed>>

\* player.close(), the cleanup of a session
DoClose(p) ==
    /\ p \in Players
    /\ \E r \in {PlayerClose(World, p)} :
          Becomes(r.w, Call("Player.close", p, heap[p].oid, r))
    /\ closed' = closed \cup {p}
    /\ UNCHANGED net

\* LookAction(p, t).execute()
DoLook(p, t) ==
    /\ p \in Players
    /\ \E r \in {LookExecute(World, p, t)} :
          Becomes(r.w, Call("Look.execute", p, t, r))
    /\ UNCHANGED <<net, closed>>

\* MoveAction(p, d).execute()
DoMove(p, d) ==
    /\ p \in Players
    /\ \E r \in {MoveExecute(World, p, d)} :
          Becomes(r.w, Call("Move.execute", p, d, r))
    /\ UNCHANGED <<net, closed>>

\* p.move_to(d)
DoMoveTo(p, d) ==
    /\ p \in Players
    /\ \E r \in {MoveTo(World, p, d)} :
          Becomes(r.w, Call("move_to", p, d, r))
    /\ UNCHANGED <<net, closed>>

\* p.location_oid = d
DoSetLocation(p, d) ==
    /\ p \in Players
    /\ \E r \in {SetLocationOid(World, p, d)} :
          Becomes(r.w, Call("location_oid", p, d, r))
    /\ UNCHANGED <<net, closed>>

\* SayAction(p, m).execute()
DoSay(p, m) ==
    /\ p \in Players
    /\ MailRoom(World)
    /\ \E py3 \in BOOLEAN :
       \E r \in {SayExecute(World, p, m, py3)} :
          Becomes(r.w, Call("Say.execute", p, m, r))
    /\ UNCHANGED <<net, closed>>

\* KillAction(p, name).execute()
DoKill(p, name) ==
    /\ p \in Players
    /\ MailRoom(World)
    /\ \E py3 \in BOOLEAN :
       \E r \in {KillExecute(World, p, name, py3)} :
          Becomes(r.w, Call("Kill.execute", p, name, r))
    /\ UNCHANGED <<net, closed>>

\* ExitAction(p, "Goodbye").execute()
DoExit(p) ==
    /\ p \in Players
    /\ \E r \in {ExitExecute(World, p, "Goodbye")} :
          Becomes(r.w, Call("Exit.execute", p, "Goodbye", r))
    /\ UNCHANGED <<net, closed>>

RECURSIVE SumOver(_, _)
\* The sum of the instance counters of the classes in S
SumOver(f, S) ==
    IF S = {} THEN 0
    ELSE LET Rest(c) == f[c] + SumOver(f, S \ {c})
         IN  Rest(CHOOSE c \in S : TRUE)

\* Room for one more clone
CloneRoom ==
    SumOver(ic, DOMAIN ic) < SumOver(Loaded.ic, DOMAIN Loaded.ic) + MaxClones

StoreIds == {"bob", "rat", "rat:1", "ghost"}
CloneClasses == {"Object", "Npc"}
CloneIds == {"rat", "forest", "ghost"}

\* Db.instance().add(obj)
DoAdd(r) ==
    /\ \E a \in {DbAdd(World, r)} :
          Becomes(a.w, Call("add", r, heap[r].oid, a))
    /\ UNCHANGED <<net, closed>>

\* Db.instance().remove(obj)
DoRemove(r) ==
    /\ \E a \in {DbRemove(World, r)} :
          Becomes(a.w, Call("remove", r, heap[r].oid, a))
    /\ UNCHANGED <<net, closed>>

\* Db.instance().get(oid)
DoGet(k) ==
    /\ \E a \in {DbGet(World, k)} :
          Becomes(a.w, Call("get", 0, k, a))
    /\ UNCHANGED <<net, closed>>

\* cls.clone(oid)
DoClone(cls, oid) ==
    /\ CloneRoom
    /\ \E a \in {Clone(World, cls, oid)} :
          Becomes(a.w, Call("clone", 0, oid, a))
    /\ UNCHANGED <<net, closed>>

\* The hit points an entity has lost in this run
Damage(r) == heap[r].hp0 - heap[r].hp

\* The owner of a queue takes its first item and, when it is an Action,
\* executes it.
Drain(p) ==
    /\ p \in Players
    /\ heap[p].actions # <<>>
    /\ Head(heap[p].actions).type = "Attack" =>
          /\ Len(timers) < MaxTimers
          /\ Damage(Head(heap[p].actions).dst) < MaxHits
    /\ \E item \in {Head(heap[p].actions)} :
       \E py3 \in BOOLEAN :
       \E r \in {Execute([World EXCEPT !.heap[p].actions = Tail(@)],
                         item, py3)} :
          Becomes(r.w, [Call("queue:" \o item.type, item.src, item.text, r)
                            EXCEPT !.res = item.dst])
    /\ UNCHANGED <<net, closed>>

\* A greenlet started with start_later(2) runs AttackAction.requeue
TimerFire ==
    /\ timers # <<>>
    /\ Len(heap[Head(timers)[2]].actions) < MaxMail
    /\ \E r \in {Requeue([World EXCEPT !.timers = Tail(@)],
                         Head(timers)[1], Head(timers)[2])} :
          Becomes(r.w, [Call("requeue", Head(timers)[1], "", r)
                            EXCEPT !.res = Head(timers)[2]])
    /\ UNCHANGED <<net, closed>>

Next ==
    \/ \E u \in Names : DoPlayerInit(u)
    \/ \E p \in Refs(World) : DoClose(p)
    \/ \E p \in Refs(World), t \in LookTargets : DoLook(p, t)
    \/ \E p \in Refs(World), d \in MoveDests : DoMove(p, d)
    \/ \E p \in Refs(World), m \in SayMsgs : DoSay(p, m)
    \/ \E p \in Refs(World) : Drain(p)

Spec == Init /\ [][Next]_vars

NextMove ==
    \/ \E u \in Names : DoPlayerInit(u)
    \/ \E p \in Refs(World) : DoClose(p)
    \/ \E p \in Refs(World), d \in MoveDests : DoMove(p, d)
    \/ \E p \in Refs(World), d \in MoveDests : DoMoveTo(p, d)
    \/ \E p \in Refs(World), d \in MoveDests : DoSetLocation(p, d)

SpecMove == Init /\ [][NextMove]_vars

NextSay ==
    \/ \E u \in Names : DoPlayerInit(u)
    \/ \E p \in Refs(World), d \in MoveDests : DoMove(p, d)
    \/ \E p \in Refs(World), m \in SayMsgs : DoSay(p, m)
    \/ \E p \in Refs(World) : Drain(p)

SpecSay == Init /\ [][NextSay]_vars

NextFight ==
    \/ \E u \in FightNames : DoPlayerInit(u)
    \/ \E p \in Refs(World) : DoClose(p)
    \/ \E p \in Refs(World), n \in KillNames : DoKill(p, n)
    \/ \E p \in Refs(World), d \in FightDests : DoMove(p, d)
    \/ \E p \in Refs(World) : Drain(p)
    \/ TimerFire

SpecFight == Init /\ [][NextFight]_vars

\* The hit points of the two Players when a run of SpecDeath starts
WoundedHp == {0, 1}

\* Two Players, al and bob, in town_square; each has taken the greeting from
\* its queue
Arena ==
    LET Second(w1) == ObjectInit(w1, "Player", PlayerKw("bob")).w
    IN  Second(ObjectInit(Loaded, "Player", PlayerKw("al")).w)

\* The Players of w after earlier fights left them with h[r] hit points
Wounded(w, h) ==
    [w EXCEPT !.heap =
        [r \in DOMAIN w.heap |->
            IF w.heap[r].cls = "Player"
            THEN [w.heap[r] EXCEPT !.actions = <<>>, !.hp = h[r], !.hp0 = h[r]]
            ELSE w.heap[r]]]

\* A state of the server in which two Players are nearly dead
InitWounded ==
    /\ \E h \in [{r \in Refs(Arena) : Arena.heap[r].cls = "Player"}
                    -> WoundedHp] :
        \E w \in {Wounded(Arena, h)} :
            /\ heap = w.heap
            /\ objects = w.objects
            /\ ic = w.ic
            /\ timers = w.timers
    /\ pc = [c \in Conns |-> "idle"]
    /\ player = [c \in Conns |-> 0]
    /\ inq = [c \in Conns |-> <<>>]
    /\ eof = [c \in Conns |-> FALSE]
    /\ out = [c \in Conns |-> <<>>]
    /\ last = NoCall
    /\ closed = {}

NextDeath ==
    \/ \E p \in Refs(World), n \in KillNames : DoKill(p, n)
    \/ \E p \in Refs(World) : Drain(p)
    \/ TimerFire

SpecDeath == InitWounded /\ [][NextDeath]_vars

NextAct ==
    \/ \E p \in Refs(World), m \in SayMsgs : DoSay(p, m)
    \/ \E p \in Refs(World), n \in KillNames : DoKill(p, n)
    \/ \E p \in Refs(World) : Drain(p)
    \/ TimerFire

SpecAct == InitWounded /\ [][NextAct]_vars


NextStore ==
    \/ \E u \in Names : DoPlayerInit(u)
    \/ \E r \in Refs(World) : DoAdd(r)
    \/ \E r \in Refs(World) : DoRemove(r)
    \/ \E k \in StoreIds : DoGet(k)

SpecStore == Init /\ [][NextStore]_vars

NextClone ==
    \/ \E cls \in CloneClasses, oid \in CloneIds : DoClone(cls, oid)
    \/ \E r \in Refs(World) : DoAdd(r)
    \/ \E r \in Refs(World) : DoRemove(r)

SpecClone == Init /\ [][NextClone]_vars

\* The hub runs every greenlet that can run: a greenlet waiting to write or
\* to read is resumed once its socket is ready.
FairSpecNet ==
    SpecNet /\ \A c \in Conns : WF_vars(WriteUser(c)) /\ WF_vars(ReadUser(c))

----------------------------------------------------------------------------
(* Sessions: the claims *)

\* The session of connection c has registered its Player, which is the
\* entity the store holds under its id.
Registered(c) == player[c] # 0 /\ player[c] \in Stored(World)

\* C1: no terminated session has its Player still in the store: once the
\* Player of a session was added, every way its greenlet ends removes it.
C1_TerminatedSessionRemoved ==
    \A c \in Conns :
        pc[c] = "dead" /\ player[c] # 0 => player[c] \notin Stored(World)

\* C2: a session with a registered, running Player whose next input line is
\* "exit" eventually has the Player marked inactive and removed from the store.
C2_ExitEndsSession ==
    \A c \in Conns :
        [](Registered(c) /\ inq[c] # <<>> /\ Head(inq[c]) = "exit"
           => <>(/\ player[c] # 0
                 /\ player[c] \notin Stored(World)
                 /\ ~heap[player[c]].running))

\* C3: a session with a registered Player whose stream the client closed
\* eventually has the Player removed from the store.
C3_SeveredSessionRemoved ==
    \A c \in Conns :
        [](Registered(c) /\ eof[c] => <>(player[c] \notin Stored(World)))

----------------------------------------------------------------------------
(* The world: the claims *)

\* The fields of every entity but its queue
Fields(h) == [r \in 1..Len(h) |-> [h[r] EXCEPT !.actions = <<>>]]

\* C5: every entity in the store has a locationId that is empty or the id
\* of an entity in the store.
C5_NoDanglingLocation ==
    \A r \in Stored(World) :
        Truthy(heap[r].loc) => heap[r].loc \in DOMAIN objects

\* C8: a move to an id that is no key of the store changes nothing: move_to
\* and the location_oid setter raise LocationNotFound, MoveAction returns
\* 'Oops, could not find "<id>"'.
C8_UnknownDestinationRejected ==
    [][(/\ last'.op \in {"Move.execute", "move_to", "location_oid"}
        /\ last'.arg \notin DOMAIN objects)
       => /\ world' = world
          /\ IF last'.op = "Move.execute"
             THEN /\ last'.exc = ""
                  /\ last'.ret = "Oops, could not find \"" \o last'.arg \o "\""
             ELSE last'.exc = "LocationNotFound"]_vars

\* C8, its case: a MoveAction to an id the store does not hold has run and
\* the mover is still where Player.init put it.
C8_Witness ==
    /\ last.op = "Move.execute"
    /\ last.arg \notin DOMAIN objects
    /\ last.exc = ""
    /\ heap[last.ref].loc = StartLocation

\* The target of a look is neither the observer's location nor the id of a
\* stored entity located there
Unresolved(o, t) ==
    heap[o].loc # t /\ QueryOidLoc(World, t, heap[o].loc) = {}

\* C9: LookAction.execute on a target that cannot be resolved returns
\* 'There's no "<target>" here.', lets no exception escape and changes nothing.
C9_LookFailsGracefully ==
    [][(last'.op = "Look.execute" /\ Unresolved(last'.ref, last'.arg))
       => /\ last'.exc = ""
          /\ last'.ret = "There's no \"" \o last'.arg \o "\" here."
          /\ world' = world]_vars

\* The speaker's location_oid names a Location of the store
InLocation(p) ==
    /\ heap[p].loc \in DOMAIN objects
    /\ heap[objects[heap[p].loc]].cls = "Location"

\* The stored entities at the speaker's location, the speaker excepted
Occupants(p) == {r \in Stored(World) : heap[r].loc = heap[p].loc /\ r # p}

SaidBy(p, m) == StrItem(heap[p].oid \o " says: \"" \o m \o "\"")

\* C10 as stated: Say returns 'You say: "m"' and appends '<P.id> says: "m"'
\* to the queue of every other occupant of P's location, Player or NPC.
C10_SayReachesEveryOccupant ==
    [][(last'.op = "Say.execute" /\ InLocation(last'.ref))
       => /\ last'.ret = "You say: \"" \o last'.arg \o "\""
          /\ \A r \in Occupants(last'.ref) :
                heap'[r].actions =
                    Append(heap[r].actions, SaidBy(last'.ref, last'.arg))]_vars

\* C10, amended: Say by P, located in a Location of the store, returns
\* 'You say: "m"' and appends exactly one '<P.id> says: "m"' to the queue of
\* every other stored Player located there; NPCs and Locations (no queue),
\* P itself and every entity elsewhere or not stored receive nothing, and no
\* other field changes.  A stored Player that carries P's own id receives the
\* item or not.  Without such a location Say raises and changes nothing.
C10_SayReachesPlayers ==
    [][last'.op = "Say.execute"
       => IF InLocation(last'.ref)
          THEN /\ last'.exc = ""
               /\ last'.ret = "You say: \"" \o last'.arg \o "\""
               /\ Fields(heap') = Fields(heap)
               /\ <<objects', ic', timers'>> = <<objects, ic, timers>>
               /\ \A r \in Refs(World) :
                     IF r \in Occupants(last'.ref) /\ heap[r].cls = "Player"
                     THEN IF heap[r].oid # heap[last'.ref].oid
                          THEN heap'[r].actions =
                                  Append(heap[r].actions,
                                         SaidBy(last'.ref, last'.arg))
                          ELSE heap'[r].actions \in
                                  {heap[r].actions,
                                   Append(heap[r].actions,
                                          SaidBy(last'.ref, last'.arg))}
                     ELSE heap'[r].actions = heap[r].actions
          ELSE last'.exc = "AttributeError" /\ world' = world]_vars

\* C10, its case: a Say has run with a listening Player and an NPC at the
\* speaker's location and another Player elsewhere.
C10_Witness ==
    /\ last.op = "Say.execute" /\ last.exc = ""
    /\ \E r \in Occupants(last.ref) :
          /\ heap[r].cls = "Player"
          /\ heap[r].actions = <<SaidBy(last.ref, last.arg)>>
    /\ \E r \in Occupants(last.ref) : heap[r].cls = "Npc"


----------------------------------------------------------------------------
(* Fights: the claims *)

\* C4: a delayed Attack retry that is executed after its attacker or its
\* target was removed from the store raises nothing, returns the "stopped
\* attacking you." narration, changes no entity's hit points and schedules
\* no further retry.
C4_RetryAfterRemovalStops ==
    [][(/\ last'.op = "queue:Attack"
        /\ last'.arg = "requeue"
        /\ (last'.ref \notin Stored(World) \/ last'.res \notin Stored(World)))
       => /\ last'.exc = ""
          /\ last'.ret = Stopped(World, last'.ref)
          /\ \A r \in Refs(World) : heap'[r].hp = heap[r].hp
          /\ timers' = timers]_vars

----------------------------------------------------------------------------
(* The store: the claims *)

\* What get(k) finds in a store: the entity, or 0 for ObjectNotFound
Lookup(objs, k) == IF k \in DOMAIN objs THEN objs[k] ELSE 0

\* The ids an entity or a store entry has after a step
IdsAfter ==
    {heap'[r].oid : r \in 1..Len(heap')} \cup DOMAIN objects \cup DOMAIN objects'

\* C6 as stated: an entity that get returns under its id is still returned at
\* every later point until remove is applied to that very entity, and after
\* remove(E) get(E.id) fails with ObjectNotFound.
C6_StoredUntilRemoved ==
    [][/\ \A k \in DOMAIN objects :
            \/ last'.op = "remove" /\ last'.ref = objects[k]
            \/ Lookup(objects', k) = objects[k]
       /\ (last'.op = "remove" /\ last'.exc = "")
            => Lookup(objects', heap[last'.ref].oid) = 0]_vars

\* C6, amended: the store works by id.  get(k) returns the entity most
\* recently added under k (add and Player.init overwrite whatever entity held
\* k), unless an entity with id k was removed since, and then it fails with
\* ObjectNotFound; remove(E) deletes the entry of E's id whichever entity
\* holds it, and fails with ObjectNotFound, changing nothing, when the id is
\* absent; get changes nothing.
C6_StoreLastWriteWins ==
    [][/\ \A k \in IdsAfter :
            Lookup(objects', k) =
                IF last'.op = "add" /\ last'.exc = ""
                   /\ heap[last'.ref].oid = k
                THEN last'.ref
                ELSE IF last'.op = "Player.init" /\ last'.exc = ""
                        /\ last'.arg = k
                THEN last'.res
                ELSE IF last'.op = "remove" /\ last'.exc = ""
                        /\ heap[last'.ref].oid = k
                THEN 0
                ELSE Lookup(objects, k)
       /\ last'.op = "Player.init" /\ last'.exc = ""
            => last'.res \notin Refs(World) /\ heap'[last'.res].oid = last'.arg
       /\ last'.op = "remove" /\ last'.exc # ""
            => /\ last'.exc = "ObjectNotFound"
               /\ Lookup(objects, heap[last'.ref].oid) = 0
       /\ last'.op = "remove" /\ last'.exc = ""
            => Lookup(objects, heap[last'.ref].oid) # 0
       /\ last'.op = "get"
            => /\ last'.res = Lookup(objects, last'.arg)
               /\ last'.exc = IF Lookup(objects, last'.arg) = 0
                              THEN "ObjectNotFound" ELSE ""]_vars

\* C6: get has returned an entity while another entity with the same id
\* exists, the one it replaced in the store
C6_Witness ==
    /\ last.op = "get"
    /\ last.exc = ""
    /\ last.res # 0
    /\ \E r \in Refs(World) \ {last.res} : heap[r].oid = last.arg

\* C7: a clone of a prototype is stored under "<prototypeId>:<n>", and n is
\* larger than the n of every earlier clone of that prototype.
C7_ClonesDistinctIncreasing ==
    [][(last'.op = "clone" /\ last'.exc = "")
       => \E n \in 1..Len(heap') :
            /\ heap'[last'.res].oid = CloneOid(last'.arg, n)
            /\ Lookup(objects', CloneOid(last'.arg, n)) = last'.res
            /\ \A r \in Refs(World), m \in n..Len(heap') :
                    heap[r].oid # CloneOid(last'.arg, m)]_vars

----------------------------------------------------------------------------
(* Attacks: the claims *)

\* C11: an Attack executed while attacker and target have the same
\* location_oid raises nothing, lowers the target's hp by exactly 1 and
\* changes no other hp; when the hp left is below zero it returns "You have
\* died." and schedules no retry, otherwise it schedules exactly one retry,
\* RetryDelay later.  A retry is therefore scheduled only by a step that has
\* lowered the target's hp and left it at zero or more, which bounds the
\* applications of a chain.
C11_AttackHitsOnce ==
    [][(/\ last'.op = "queue:Attack"
        /\ heap[last'.ref].loc = heap[last'.res].loc)
       => /\ last'.exc = ""
          /\ heap'[last'.res].hp = heap[last'.res].hp - 1
          /\ \A r \in Refs(World) \ {last'.res} : heap'[r].hp = heap[r].hp
          /\ IF heap'[last'.res].hp < 0
             THEN last'.ret = "You have died." /\ timers' = timers
             ELSE timers' =
                    Append(timers, <<last'.ref, last'.res, RetryDelay>>)]_vars

\* C11: an Attack has left its target below zero
C11_Witness ==
    /\ last.op = "queue:Attack"
    /\ last.ret = "You have died."
    /\ heap[last.res].hp < 0

\* An item waits in the queue of entity r of heap h
Pending(h, r, item) == \E i \in 1..Len(h[r].actions) : h[r].actions[i] = item

FightStarted(a, t) == StrItem(StartsToFight(World, a, t))

\* C12: a Kill that finds its target, Player or NPC, returns "You start to
\* fight <target>", leaves "<attacker> starts to fight <target>" in the queue
\* of every other occupant of the location, and leaves pending an Attack of
\* the attacker on the target and an Attack of the target on the attacker.
C12_KillStartsFight ==
    [][(/\ last'.op = "Kill.execute"
        /\ last'.exc = ""
        /\ last'.ret # NoTarget(last'.arg))
       => \E t \in Stored(World) :
            /\ heap[t].oid = last'.arg
            /\ heap[t].loc = heap[last'.ref].loc
            /\ last'.ret = "You start to fight " \o last'.arg
            /\ \A r \in Occupants(last'.ref) :
                    Pending(heap', r, FightStarted(last'.ref, t))
            /\ Pending(heap', t, AttackItem(last'.ref, t, "kill"))
            /\ Pending(heap', last'.ref, AttackItem(t, last'.ref, "kill"))]_vars

----------------------------------------------------------------------------
(* Look: the claims *)

RECURSIVE Orders(_)
\* The lists in which the entities of S can be enumerated
Orders(S) ==
    IF S = {} THEN {<<>>}
    ELSE UNION {{<<r>> \o rest : rest \in Orders(S \ {r})} : r \in S}

\* The exits line of entity l
ExitsLine(l) ==
    IF DOMAIN heap[l].exits # {}
    THEN "Exits: " \o Join(SortedKeys(heap[l].exits), ", ")
    ELSE "There are no obvious exists"

\* The stored entities whose location_oid is loc, the observer o excepted
SeenBy(o, loc) == {r \in Stored(World) : heap[r].loc = loc /\ r # o}

\* C13: a Look by an observer at its own location returns the long_desc of
\* the location, then one exits line, then the short_desc of every stored
\* entity located there except the observer, one per line.
C13_LookAtOwnLocation ==
    [][(/\ last'.op \in {"Look.execute", "queue:Look"}
        /\ last'.arg = heap[last'.ref].loc
        /\ last'.arg \in DOMAIN objects)
       => /\ last'.exc = ""
          /\ \E order \in Orders(SeenBy(last'.ref, last'.arg)) :
                last'.ret =
                    Join(<<heap[objects[last'.arg]].long_desc,
                           ExitsLine(objects[last'.arg])>>
                         \o Descs(World, order), "\n")]_vars

----------------------------------------------------------------------------
(* The session loop: the claims *)

\* prompt = "\n% " of connect
Prompt == "\n% "

\* The Look narrations of town_square a Player p can be given, the prompt
\* appended
GreetingsOf(p) ==
    IF StartLocation \notin DOMAIN objects THEN {}
    ELSE {Join(<<heap[objects[StartLocation]].long_desc,
                 ExitsLine(objects[StartLocation])>>
               \o Descs(World, order), "\n") \o Prompt :
            order \in UNION {Orders(S) : S \in SUBSET (Stored(World) \ {p})}}

\* C14: once a connection has supplied its identifier and its Player exists,
\* the connection receives, as the first text after the "User: " request,
\* the Look narration of town_square.
C14_GreetedWithLook ==
    \A c \in Conns :
        [](player[c] # 0
           => <>(/\ Len(out[c]) > 1
                 /\ out[c][2] \in GreetingsOf(player[c])))

\* C15: every line a client sends to a session whose Player exists is read
\* and dispatched, and the narration of its Action is written to that
\* connection.
C15_LineDispatched ==
    \A c \in Conns :
        [](player[c] # 0 /\ inq[c] # <<>>
           => <>(inq[c] = <<>> /\ Len(out[c]) > 1))

\* The queue of the Player of connection c
Mailbox(c) == IF player[c] = 0 THEN <<>> ELSE heap[player[c]].actions

\* C16: every item put on the queue of a session's Player is eventually
\* taken from it and flushed to the connection.
C16_MailboxFlushed ==
    \A c \in Conns :
        [](Mailbox(c) # <<>> => <>(Mailbox(c) = <<>> /\ Len(out[c]) > 1))

----------------------------------------------------------------------------
(* Isolation of the sessions: the claims *)

\* s is the beginning of t
IsPrefix(s, t) == Len(s) <= Len(t) /\ SubSeq(t, 1, Len(s)) = s

C19_CloseRemovesOwnPlayer ==
    [][last'.op = "Player.close"
       => /\ last'.exc = ""
          /\ \A k \in DOMAIN objects :
                objects[k] # last'.ref => Lookup(objects', k) = objects[k]]_vars

\* C20: an Attack executed when its target or its attacker is already below
\* zero hit points lowers no entity's hit points.
C20_DeadTakeAndDealNoDamage ==
    [][(/\ last'.op = "queue:Attack"
        /\ (heap[last'.res].hp < 0 \/ heap[last'.ref].hp < 0))
       => \A r \in Refs(World) : heap'[r].hp = heap[r].hp]_vars

====
